---- MODULE Spec2Model ----
(***************************************************************************)
(* A model of frontend/catalyst/ag_primitives.py: the AutoGraph primitives *)
(* if_stmt and for_stmt written in terms of the traceable Catalyst         *)
(* primitives catalyst.cond and catalyst.for_loop.                         *)
(*                                                                         *)
(* The caller's tracked local variables are the tuple `state`; get_state   *)
(* reads it and set_state overwrites it.  Position i of the tuple belongs  *)
(* to symbol_names[i]; an Undefined marker found at position i is the      *)
(* marker AutoGraph created for that symbol, so its repr is that name.     *)
(***************************************************************************)
EXTENDS Integers, Sequences, FiniteSets, TLC

VARIABLES
    state,          \* the tuple get_state() returns and set_state() replaces
    pc,             \* position inside the running primitive
    raised,         \* the exception that left the primitive (NoExc: none)
    nSet,           \* number of set_state calls made so far
    entry,          \* the caller's state when the primitive was called
    init_state,     \* if_stmt:89 / for_stmt:241
    \* ---- if_stmt ----
    pred, true_fn, false_fn,
    cur,            \* the branch procedure catalyst.cond is running
    ran,            \* the branch procedures already run, in order
    branch_results, \* what each branch procedure returned to catalyst.cond
    bodyEntry,      \* the state each branch body saw when it started
    \* ---- for_stmt ----
    iteration_target, extra_test, body_fn,
    strict,         \* catalyst.autograph_strict_conversion
    ignore,         \* catalyst.autograph_ignore_fallbacks
    fallback,
    loop,           \* start, stop, step, enum_start, iteration_array
    i,              \* the index catalyst.for_loop hands to functional_for
    init_iter_args, iter_args,
    exc,            \* the exception caught by for_stmt's except clause
    results,
    warned,         \* number of warnings.warn calls
    nativePos,      \* number of native iterations made by _call_python_for
    graphSeen,      \* the elements body_fn received inside functional_for
    nativeSeen,     \* the elements body_fn received inside _call_python_for
    attempts,       \* number of calls of catalyst.for_loop's callable
    fallbacks,      \* number of times the native fallback was started
    nGet,           \* number of get_state calls made so far
    \* ---- get_source_code_info ----
    stack,          \* inspect.stack() beyond the frame of the caller
    tb_frame,       \* the frame whose location is to be described
    ag_source_map,  \* the source map the stack walk found
    info,           \* the description returned
    \* ---- converted_call ----
    transformer,    \* tf_autograph_api._TRANSPILER
    allowlist,      \* config.CONVERSION_RULES
    frames,         \* the active converted_call invocations, outermost first
    ret,            \* what the converted_call that ended last returned
    delegated,      \* the calls handed to the upstream converted_call
    calls,          \* the converted_call invocations begun, in order
    preCall         \* the process-wide values before the outermost call

ifVars  == <<pred, true_fn, false_fn, cur, ran, branch_results, bodyEntry>>
forArgs == <<iteration_target, extra_test, body_fn, strict, ignore>>
forVars == <<fallback, loop, i, init_iter_args, iter_args, exc, results,
             warned, nativePos, graphSeen, nativeSeen, attempts>>
infoVars == <<stack, tb_frame, ag_source_map, info>>
callVars == <<transformer, allowlist, frames, ret, delegated, calls, preCall>>
vars == <<state, pc, raised, nSet, entry, init_state, ifVars, forArgs, forVars,
          fallbacks, nGet, infoVars, callVars>>

----------------------------------------------------------------------------
(* Bounds of the model.                                                    *)
MaxLen   == 2       \* longest iterable
MaxBound == 2       \* largest range bound

----------------------------------------------------------------------------
(* Values of tracked variables: a (shape, dtype) signature and a number.   *)
Undefined == [ty |-> "Undefined", v |-> 0]
Val(t, n) == [ty |-> t, v |-> n]

IsUndefined(r) == r.ty = "Undefined"

symbol_names == <<"x", "y">>

(* Exceptions.  base = FALSE marks a BaseException that is no Exception.   *)
NoExc == [cls |-> "none", kind |-> "", var |-> "", base |-> TRUE]
Exc(c, k, n) == [cls |-> c, kind |-> k, var |-> n, base |-> TRUE]
SystemExit == [cls |-> "SystemExit", kind |-> "", var |-> "", base |-> FALSE]

IsException(e) == e.cls # "none" /\ e.base

(* The outcome of running user code: the state it leaves, or an exception. *)
Ok(s)     == [exc |-> NoExc, st |-> s]
Raise(e, s) == [exc |-> e, st |-> s]

Min(S) == CHOOSE n \in S : \A m \in S : n <= m

----------------------------------------------------------------------------
(* assert_results: the first Undefined result raises, naming its variable. *)
UndefinedAt(rs) == {n \in 1..Len(rs) : IsUndefined(rs[n])}

assert_results_first_only(rs, var_names) ==
    IF IsUndefined(rs[1])
    THEN Exc("AutoGraphError", "undefined", var_names[1])
    ELSE NoExc

assert_results(rs, var_names) ==
    IF UndefinedAt(rs) # {}
    THEN Exc("AutoGraphError", "undefined", var_names[Min(UndefinedAt(rs))])
    ELSE NoExc

----------------------------------------------------------------------------
(* The branch bodies AutoGraph hands to if_stmt.  Reading an Undefined     *)
(* variable raises UnboundLocalError.                                      *)
Branches == {"skip", "setx", "sety", "setxy", "incx", "copy"}

RunBranch(fn, s) ==
    CASE fn = "skip"  -> Ok(s)
      [] fn = "setx"  -> Ok(<<Val("i64", 5), s[2]>>)
      [] fn = "sety"  -> Ok(<<s[1], Val("i64", 7)>>)
      [] fn = "setxy" -> Ok(<<Val("i64", 3), Val("i64", 4)>>)
      [] fn = "incx"  -> IF IsUndefined(s[1])
                         THEN Raise(Exc("UnboundLocalError", "", "x"), s)
                         ELSE Ok(<<Val(s[1].ty, s[1].v + 1), s[2]>>)
      [] fn = "copy"  -> IF IsUndefined(s[1])
                         THEN Raise(Exc("UnboundLocalError", "", "x"), s)
                         ELSE Ok(<<s[1], s[1]>>)

----------------------------------------------------------------------------
(* Python objects met as loop elements: numbers and non-numeric objects.   *)
Num(n) == [num |-> TRUE, v |-> n]
Obj(n) == [num |-> FALSE, v |-> n]

NoneInt == [some |-> FALSE, val |-> 0]
SomeInt(n) == [some |-> TRUE, val |-> n]
NoneArr == [some |-> FALSE, val |-> <<>>]
SomeArr(a) == [some |-> TRUE, val |-> a]

(* CRange.__init__(start_stop, stop=None, step=None), called with 1, 2 or  *)
(* 3 positional arguments; args records the arguments of the call.         *)
CRange_swapped(args) ==
    [kind |-> "range", args |-> args,
     start |-> IF Len(args) >= 2 THEN args[2] ELSE 0,
     stop  |-> IF Len(args) >= 2 THEN args[1] ELSE args[1],
     step  |-> IF Len(args) >= 3 THEN args[3] ELSE 1,
     seq |-> <<>>, start_idx |-> 0, sized |-> TRUE]

CRange(args) ==
    [kind |-> "range", args |-> args,
     start |-> IF Len(args) >= 2 THEN args[1] ELSE 0,
     stop  |-> IF Len(args) >= 2 THEN args[2] ELSE args[1],
     step  |-> IF Len(args) >= 3 THEN args[3] ELSE 1,
     seq |-> <<>>, start_idx |-> 0, sized |-> TRUE]

get_raw_range(t) == <<t.start, t.stop, t.step>>

(* CEnumerate.__init__(iterable, start=0); sized: len(iterable) works.     *)
CEnumerate(iterable, start, hasLen) ==
    [kind |-> "enum", args |-> <<>>, start |-> 0, stop |-> 0, step |-> 1,
     seq |-> iterable, start_idx |-> start, sized |-> hasLen]

(* Any other iteration target: a list (sized) or a generator (unsized).    *)
Iterable(iterable, hasLen) ==
    [kind |-> "iter", args |-> <<>>, start |-> 0, stop |-> 0, step |-> 1,
     seq |-> iterable, start_idx |-> 0, sized |-> hasLen]

(* The integers of Python's range(a, b, c), c # 0.                         *)
RangeLen(a, b, c) ==
    IF c > 0
    THEN (IF a < b THEN (b - a + c - 1) \div c ELSE 0)
    ELSE (IF a > b THEN (a - b - c - 1) \div (-c) ELSE 0)

py_range(t) == [n \in 1..RangeLen(t.start, t.stop, t.step) |->
                    t.start + (n - 1) * t.step]

(* What the native iteration protocol yields for a target: CRange.__iter__ *)
(* iterates py_range, CEnumerate is an enumerate, anything else yields its *)
(* elements.                                                               *)
NativeElems(t) ==
    CASE t.kind = "range" -> [n \in 1..Len(py_range(t)) |-> <<Num(py_range(t)[n])>>]
      [] t.kind = "enum"  -> [n \in 1..Len(t.seq) |->
                                 <<Num(t.start_idx + n - 1), t.seq[n]>>]
      [] OTHER            -> [n \in 1..Len(t.seq) |-> <<t.seq[n]>>]

(* jnp.asarray: an array of the numbers, or an exception when some element *)
(* is not a number.                                                        *)
asarray(sq) ==
    IF \A n \in 1..Len(sq) : sq[n].num
    THEN [ok |-> TRUE,  arr |-> [n \in 1..Len(sq) |-> sq[n].v]]
    ELSE [ok |-> FALSE, arr |-> <<>>]

(* jax.api_util.shaped_abstractify: the (shape, dtype) of a value, or a    *)
(* TypeError for a value JAX has no type for.                              *)
Abstractifiable(r) == r.ty \in {"i64", "f64"}

----------------------------------------------------------------------------
(* The loop bodies AutoGraph hands to for_stmt.  elem is what the body is  *)
(* called with; its last component is the element.  graph tells whether    *)
(* the body runs under catalyst.for_loop, where the loop variable is       *)
(* dynamic and indexing a Python list with it fails.                       *)
Bodies == {"acc", "last", "widen", "promote", "cast", "index", "del", "raise",
           "exit"}

ElemValue(e) == IF e.num THEN Val("i64", e.v) ELSE Val("str", e.v)

RunBody(fn, elem, s, graph) ==
    LET e == elem[Len(elem)] IN
    CASE fn = "acc"   -> IF IsUndefined(s[1])
                         THEN Raise(Exc("UnboundLocalError", "", "x"), s)
                         ELSE IF ~e.num \/ s[1].ty = "str"
                         THEN Raise(Exc("TypeError", "", ""), s)
                         ELSE Ok(<<Val(s[1].ty, s[1].v + e.v), s[2]>>)
      [] fn = "last"  -> Ok(<<s[1], ElemValue(e)>>)
      [] fn = "widen" -> IF IsUndefined(s[1])
                         THEN Raise(Exc("UnboundLocalError", "", "x"), s)
                         ELSE IF s[1].ty = "str"
                         THEN Raise(Exc("TypeError", "", ""), s)
                         ELSE Ok(<<Val("f64", s[1].v), s[2]>>)
      [] fn = "promote" -> IF IsUndefined(s[1])
                         THEN Raise(Exc("UnboundLocalError", "", "x"), s)
                         ELSE IF ~e.num \/ s[1].ty = "str"
                         THEN Raise(Exc("TypeError", "", ""), s)
                         ELSE Ok(<<Val("f64", s[1].v + e.v), s[2]>>)
      [] fn = "cast"  -> IF IsUndefined(s[1])
                         THEN Raise(Exc("UnboundLocalError", "", "x"), s)
                         ELSE IF IsUndefined(s[2])
                         THEN Raise(Exc("UnboundLocalError", "", "y"), s)
                         ELSE IF s[1].ty = "str"
                         THEN Raise(Exc("TypeError", "", ""), s)
                         ELSE Ok(<<Val("f64", s[1].v), Val("i64", s[2].v)>>)
      [] fn = "index" -> IF graph
                         THEN Raise(Exc("TracerIntegerConversionError", "", ""), s)
                         ELSE Ok(<<s[1], ElemValue(e)>>)
      [] fn = "del"   -> Ok(<<s[1], Undefined>>)
      [] fn = "raise" -> Raise(Exc("ValueError", "", ""), s)
      [] fn = "exit"  -> Raise(SystemExit, s)

iterate_names == symbol_names

(* assert_for_loop_inputs: the first input, in order, that is Undefined or *)
(* has no JAX type raises.                                                 *)
BadInputs(inputs) ==
    {n \in 1..Len(inputs) : IsUndefined(inputs[n]) \/ ~Abstractifiable(inputs[n])}

assert_for_loop_inputs_unchecked(inputs, names) == NoExc

assert_for_loop_inputs(inputs, names) ==
    IF BadInputs(inputs) = {} THEN NoExc
    ELSE LET n == Min(BadInputs(inputs)) IN
         IF IsUndefined(inputs[n])
         THEN Exc("AutoGraphError", "undefined", symbol_names[n])
         ELSE Exc("AutoGraphError", "nonjax", names[n])

(* assert_for_loop_results: the first pair, in order, that cannot be       *)
(* abstractified (TypeError) or differs in (shape, dtype) raises.          *)
BadResults(inputs, outputs) ==
    {n \in 1..Len(inputs) :
        \/ ~Abstractifiable(inputs[n]) \/ ~Abstractifiable(outputs[n])
        \/ inputs[n].ty # outputs[n].ty}

assert_for_loop_results_unchecked(inputs, outputs, names) == NoExc

assert_for_loop_results(inputs, outputs, names) ==
    IF BadResults(inputs, outputs) = {} THEN NoExc
    ELSE LET n == Min(BadResults(inputs, outputs)) IN
         IF ~Abstractifiable(inputs[n]) \/ ~Abstractifiable(outputs[n])
         THEN Exc("TypeError", "", "")
         ELSE Exc("AutoGraphError", "unstable", names[n])

----------------------------------------------------------------------------
(* get_source_code_info                                                    *)
(*                                                                         *)
(* A frame of inspect.stack(): kind tells which test of lines 342-353 it   *)
(* passes ("converted_call": the function is converted_call and has a      *)
(* local converted_f; "qnode"/"qjit": its local self is a QNode / a QJIT;  *)
(* "other": none), access tells what reading .ag_source_map gives: "fail"  *)
(* (the read raises), "none" (None), "hit" (a map holding the location of  *)
(* tb_frame), "miss" (a map without it).                                   *)
Frame(k, a) == [kind |-> k, access |-> a]

FrameKinds == {"converted_call", "qnode", "qjit", "other"}
Accesses == {"fail", "none", "hit", "miss"}

NoMap == [some |-> FALSE, owner |-> 0, has |-> FALSE]

(* Source text, with or without surrounding white space.                   *)
Text(t, w) == [txt |-> t, ws |-> w]
strip(t) == [t EXCEPT !.ws = FALSE]

(* The entry a source map of the frame at position n has for the location. *)
OriginInfo(n) ==
    [function_name |-> "f", filename |-> "user.py", lineno |-> n,
     source_code_line |-> Text("for i in range(n):", TRUE)]

(* The object handed to get_source_code_info: a traceback.FrameSummary     *)
(* (filename, lineno, name, line) or an inspect.FrameInfo (filename,       *)
(* lineno, function, code_context), which has no name and no line.         *)
FrameSummary == [cls |-> "FrameSummary", filename |-> "gen.py", lineno |-> 100,
                 name |-> "tf__f", line |-> Text("ag__.for_stmt(", FALSE)]
FrameInfo == [cls |-> "FrameInfo", filename |-> "gen.py", lineno |-> 100,
              name |-> "", line |-> Text("", FALSE)]
NoFrame == [cls |-> "none", filename |-> "", lineno |-> 0,
            name |-> "", line |-> Text("", FALSE)]

NoInfo == [filename |-> "", lineno |-> 0, function_name |-> "",
           source_code |-> Text("", FALSE)]

(* get_source_code_info:334-355: the walk stops at the first frame that    *)
(* passes a test; when reading its source map raises, the exception is     *)
(* swallowed and no map is found.                                          *)
RECURSIVE FindSourceMap(_, _)
FindSourceMap(st, n) ==
    IF n > Len(st) THEN NoMap
    ELSE IF st[n].kind = "other" THEN FindSourceMap(st, n + 1)
    ELSE IF st[n].access \in {"fail", "none"} THEN NoMap
    ELSE [some |-> TRUE, owner |-> n, has |-> st[n].access = "hit"]

(* get_source_code_info:357-371: the mapped location, or the raw frame's   *)
(* own; reading .name of a FrameInfo raises AttributeError.                *)
SourceInfo(tb, m) ==
    IF m.some /\ m.has
    THEN [exc |-> NoExc,
          info |-> [filename |-> OriginInfo(m.owner).filename,
                    lineno |-> OriginInfo(m.owner).lineno,
                    function_name |-> OriginInfo(m.owner).function_name,
                    source_code |-> strip(OriginInfo(m.owner).source_code_line)]]
    ELSE IF tb.cls = "FrameInfo"
    THEN [exc |-> Exc("AttributeError", "name", ""), info |-> NoInfo]
    ELSE [exc |-> NoExc,
          info |-> [filename |-> tb.filename, lineno |-> tb.lineno,
                    function_name |-> tb.name, source_code |-> tb.line]]

get_source_code_info(tb, st) == SourceInfo(tb, FindSourceMap(st, 1))

----------------------------------------------------------------------------
(* Values the variables of the other primitive keep while one runs.        *)
NoTarget == [kind |-> "none", args |-> <<>>, start |-> 0, stop |-> 0, step |-> 1,
             seq |-> <<>>, start_idx |-> 0, sized |-> TRUE]
NoLoop == [start |-> 0, stop |-> 0, step |-> 1, enum_start |-> NoneInt,
           iteration_array |-> NoneArr]

IfIdle ==
    /\ pred = FALSE /\ true_fn = "skip" /\ false_fn = "skip"
    /\ cur = FALSE /\ ran = <<>>
    /\ branch_results = [b \in BOOLEAN |-> <<>>]
    /\ bodyEntry = [b \in BOOLEAN |-> <<>>]

ForIdle ==
    /\ iteration_target = NoTarget /\ extra_test = FALSE /\ body_fn = "acc"
    /\ strict = FALSE /\ ignore = FALSE
    /\ fallback = FALSE /\ loop = NoLoop /\ i = 0
    /\ init_iter_args = <<>> /\ iter_args = <<>> /\ exc = NoExc
    /\ results = <<>> /\ warned = 0 /\ nativePos = 0
    /\ graphSeen = <<>> /\ nativeSeen = <<>> /\ attempts = 0

Common0 ==
    /\ raised = NoExc /\ nSet = 0 /\ entry = state /\ init_state = <<>>
    /\ nGet = 0 /\ fallbacks = 0

InfoIdle ==
    /\ stack = <<>> /\ tb_frame = NoFrame /\ ag_source_map = NoMap
    /\ info = NoInfo

(* A call converted_call(fn, args, kwargs): ints are the integer           *)
(* positional arguments, iterable the iterable argument of enumerate, kw    *)
(* the keyword argument start.                                             *)
Call(fn, ints, iterable, kw) ==
    [fn |-> fn, ints |-> ints, iterable |-> iterable, kw |-> kw]

NoCall == Call("none", <<>>, <<>>, NoneInt)

(* What tf_converted_call was called with, if it was.                      *)
NoDeleg == [some |-> FALSE, fn |-> "", ints |-> <<>>, iterable |-> <<>>,
            kw |-> NoneInt, via_qnode |-> FALSE]

(* What the converted_call that ended last was called with, the process    *)
(* -wide values at its beginning, and its outcome.                         *)
NoRet == [kind |-> "none", call |-> NoCall, before |-> <<"", "">>,
          value |-> NoTarget, exc |-> NoExc, deleg |-> NoDeleg, depth |-> 0]

CallIdle ==
    /\ transformer = "tf._TRANSPILER" /\ allowlist = "tf.CONVERSION_RULES"
    /\ frames = <<>> /\ ret = NoRet /\ delegated = <<>> /\ calls = <<>>
    /\ preCall = <<"tf._TRANSPILER", "tf.CONVERSION_RULES">>

(* An exception leaves the primitive: nothing after the raise is run.      *)
Propagate(e) ==
    /\ raised' = e
    /\ pc' = "raised"

----------------------------------------------------------------------------
(* if_stmt                                                                 *)
IfEntryStates ==
    {<<x, y>> : x \in {Undefined, Val("i64", 0), Val("i64", 1)},
                y \in {Undefined, Val("i64", 0)}}

InitIf ==
    /\ state \in IfEntryStates
    /\ pc = "if_entry"
    /\ Common0
    /\ pred \in BOOLEAN /\ true_fn \in Branches /\ false_fn \in Branches
    /\ cur = FALSE /\ ran = <<>>
    /\ branch_results = [b \in BOOLEAN |-> <<>>]
    /\ bodyEntry = [b \in BOOLEAN |-> <<>>]
    /\ ForIdle /\ InfoIdle /\ CallIdle

BranchFn(b) == IF b THEN true_fn ELSE false_fn

(* if_stmt:89  init_state = get_state()                                    *)
IfStmt_Entry ==
    /\ pc = "if_entry"
    /\ init_state' = state
    /\ pc' = "cond"
    /\ UNCHANGED <<state, raised, nSet, entry, ifVars, forArgs, forVars>>
    /\ nGet' = nGet + 1
    /\ UNCHANGED <<fallbacks, infoVars, callVars>>

(* catalyst.cond runs the two registered procedures, in an order of its    *)
(* choosing, each once.                                                    *)
Cond_Call ==
    /\ pc = "cond"
    /\ \E b \in BOOLEAN :
         /\ \A n \in 1..Len(ran) : ran[n] # b
         /\ cur' = b
    /\ pc' = "proc_restore"
    /\ UNCHANGED <<state, raised, nSet, entry, init_state, pred, true_fn,
                   false_fn, ran, branch_results, bodyEntry, forArgs, forVars>>
    /\ UNCHANGED <<fallbacks, nGet, infoVars, callVars>>

(* functional_cond:93/100  set_state(init_state), dropped.                 *)
FunctionalCond_NoRestore ==
    /\ pc = "proc_restore"
    /\ pc' = "proc_body"
    /\ UNCHANGED <<state, raised, nSet, entry, init_state, ifVars, forArgs,
                   forVars>>
    /\ UNCHANGED <<fallbacks, nGet, infoVars, callVars>>

(* functional_cond:100  set_state(init_state), dropped from the true       *)
(* procedure (line 93).                                                    *)
FunctionalCond_Restore_false_only ==
    /\ pc = "proc_restore"
    /\ state' = IF cur THEN state ELSE init_state
    /\ nSet' = IF cur THEN nSet ELSE nSet + 1
    /\ pc' = "proc_body"
    /\ UNCHANGED <<raised, entry, init_state, ifVars, forArgs, forVars>>
    /\ UNCHANGED <<fallbacks, nGet, infoVars, callVars>>

(* functional_cond:93/100  set_state(init_state)                           *)
FunctionalCond_Restore ==
    /\ pc = "proc_restore"
    /\ state' = init_state
    /\ nSet' = nSet + 1
    /\ pc' = "proc_body"
    /\ UNCHANGED <<raised, entry, init_state, ifVars, forArgs, forVars>>
    /\ UNCHANGED <<fallbacks, nGet, infoVars, callVars>>

(* functional_cond:94/101  true_fn() / false_fn()                          *)
FunctionalCond_Body ==
    /\ pc = "proc_body"
    /\ bodyEntry' = [bodyEntry EXCEPT ![cur] = state]
    /\ LET r == RunBranch(BranchFn(cur), state) IN
         /\ state' = r.st
         /\ IF r.exc # NoExc
            THEN Propagate(r.exc)
            ELSE pc' = "proc_return" /\ UNCHANGED raised
    /\ UNCHANGED <<nSet, entry, init_state, pred, true_fn, false_fn, cur, ran,
                   branch_results, forArgs, forVars>>
    /\ UNCHANGED <<fallbacks, nGet, infoVars, callVars>>

(* functional_cond:95-96/102-103  get_state(), assert_results, return      *)
FunctionalCond_Return ==
    /\ pc = "proc_return"
    /\ LET rs == state
           e  == assert_results(rs, symbol_names) IN
         IF e # NoExc
         THEN Propagate(e) /\ UNCHANGED <<ran, branch_results>>
         ELSE /\ branch_results' = [branch_results EXCEPT ![cur] = rs]
              /\ ran' = Append(ran, cur)
              /\ pc' = "cond"
              /\ UNCHANGED raised
    /\ UNCHANGED <<state, nSet, entry, init_state, pred, true_fn, false_fn,
                   cur, bodyEntry, forArgs, forVars>>
    /\ nGet' = nGet + 1
    /\ UNCHANGED <<fallbacks, infoVars, callVars>>

(* catalyst.cond returns the result of the procedure the predicate         *)
(* selects; if_stmt:107-109 keeps it as a tuple.                           *)
Cond_Return ==
    /\ pc = "cond"
    /\ Len(ran) = 2
    /\ results' = branch_results[pred]
    /\ pc' = "if_restore"
    /\ UNCHANGED <<state, raised, nSet, entry, init_state, ifVars, forArgs,
                   fallback, loop, i, init_iter_args, iter_args, exc, warned,
                   nativePos, graphSeen, nativeSeen, attempts>>
    /\ UNCHANGED <<fallbacks, nGet, infoVars, callVars>>

(* if_stmt:110  set_state(results)                                         *)
IfStmt_Restore ==
    /\ pc = "if_restore"
    /\ state' = results
    /\ nSet' = nSet + 1
    /\ pc' = "done"
    /\ UNCHANGED <<raised, entry, init_state, ifVars, forArgs, forVars>>
    /\ UNCHANGED <<fallbacks, nGet, infoVars, callVars>>

NextIf ==
    \/ IfStmt_Entry
    \/ Cond_Call
    \/ FunctionalCond_Restore
    \/ FunctionalCond_Body
    \/ FunctionalCond_Return
    \/ Cond_Return
    \/ IfStmt_Restore

SpecIf == InitIf /\ [][NextIf]_vars

----------------------------------------------------------------------------
(* What a native  if pred: true_fn() else: false_fn()  leaves.             *)
NativeIf == RunBranch(BranchFn(pred), entry)

BranchDefinesAll(fn) ==
    /\ RunBranch(fn, entry).exc = NoExc
    /\ UndefinedAt(RunBranch(fn, entry).st) = {}

(* C1: when both branches leave every tracked variable defined, if_stmt    *)
(* returns, and the state its last set_state installed is the state the    *)
(* branch selected by pred produces from the entry state.                  *)
C1_IfEquivalence ==
    /\ (pc = "done" /\ iteration_target.kind = "none")
        => /\ BranchDefinesAll(true_fn) /\ BranchDefinesAll(false_fn)
           /\ state = NativeIf.st
           /\ state = results
    /\ (pc = "raised" /\ iteration_target.kind = "none")
        => ~(BranchDefinesAll(true_fn) /\ BranchDefinesAll(false_fn))

(* C1: a finished conditional whose two branches change the state in       *)
(* different ways, the unselected one having run last.                     *)
C1_Witness ==
    /\ pc = "done" /\ iteration_target.kind = "none"
    /\ pred /\ ran = <<TRUE, FALSE>>
    /\ true_fn = "incx" /\ false_fn = "setxy"
    /\ state = <<Val("i64", 2), Val("i64", 0)>>

----------------------------------------------------------------------------
IfTerminated == iteration_target.kind = "none" /\ pc \in {"done", "raised"}

BranchReturns(fn) == RunBranch(fn, entry).exc = NoExc

LeftUndefined(fn) == UndefinedAt(RunBranch(fn, entry).st)

(* The tracked variables exactly one branch leaves Undefined.              *)
OneSided ==
    {n \in 1..Len(symbol_names) :
        (n \in LeftUndefined(true_fn)) # (n \in LeftUndefined(false_fn))}

IsUndefinedError(e) == e.cls = "AutoGraphError" /\ e.kind = "undefined"

(* C3 as stated: when exactly one branch leaves a tracked variable         *)
(* Undefined, if_stmt raises an Undefined-variable error that names such a *)
(* variable, and performs no final restore.                                *)
C3_NamesThatVariable ==
    (IfTerminated /\ BranchReturns(true_fn) /\ BranchReturns(false_fn)
        /\ OneSided # {})
        => /\ IsUndefinedError(raised)
           /\ \E n \in OneSided : raised.var = symbol_names[n]
           /\ results = <<>>

(* C3: when exactly one branch leaves a tracked variable Undefined, and    *)
(* both branch bodies return, if_stmt raises an Undefined-variable error   *)
(* for either predicate value and never performs the final restore; the    *)
(* error names the first variable, in symbol order, left Undefined by the  *)
(* branch procedure that was running, the earlier procedure (if any)       *)
(* having left none Undefined; it is the one-sided variable when that is   *)
(* the only variable a branch leaves Undefined.                            *)
C3_UndefinedBranchRaises ==
    (IfTerminated /\ BranchReturns(true_fn) /\ BranchReturns(false_fn)
        /\ OneSided # {})
        => /\ pc = "raised"
           /\ IsUndefinedError(raised)
           /\ results = <<>>
           /\ state # <<>> /\ nSet = Len(ran) + 1
           /\ LeftUndefined(BranchFn(cur)) # {}
           /\ raised.var = symbol_names[Min(LeftUndefined(BranchFn(cur)))]
           /\ \A n \in 1..Len(ran) : LeftUndefined(BranchFn(ran[n])) = {}
           /\ (LeftUndefined(true_fn) \cup LeftUndefined(false_fn) = OneSided
               /\ Cardinality(OneSided) = 1)
                 => \A n \in OneSided : raised.var = symbol_names[n]

(* C3: the predicate selects the true branch, which defines y; the false   *)
(* branch, run second, leaves y Undefined and the error names y.           *)
C3_Witness ==
    /\ IfTerminated /\ pred
    /\ true_fn = "sety" /\ false_fn = "skip"
    /\ entry = <<Val("i64", 0), Undefined>>
    /\ ran = <<TRUE>> /\ cur = FALSE
    /\ raised = Exc("AutoGraphError", "undefined", "y")
    /\ results = <<>>

----------------------------------------------------------------------------
(* for_stmt                                                                *)
Elems == {Num(1), Num(2), Obj(0)}

SeqsUpTo(n) == UNION {[1..m -> Elems] : m \in 0..n}

RangeSteps == {-1, 1, 2}

RangeArgs ==
    {<<a, b, c>> : a \in 0..MaxBound, b \in (-1)..MaxBound, c \in RangeSteps}
    \cup {<<a, b>> : a \in 0..1, b \in 0..MaxBound}
    \cup {<<b>> : b \in 0..MaxBound}

Targets ==
    {CRange(args) : args \in RangeArgs}
    \cup {CEnumerate(sq, k, TRUE) : sq \in SeqsUpTo(MaxLen), k \in 0..1}
    \cup {Iterable(sq, TRUE) : sq \in SeqsUpTo(MaxLen)}
    \cup {CEnumerate(<<Num(1), Obj(0)>>, 1, FALSE),
          Iterable(<<Num(1), Obj(0)>>, FALSE), Iterable(<<Num(2)>>, FALSE)}

(* The call stacks for_stmt is met in: called from converted code whose    *)
(* source map holds the loop, or from code no source map is found for.     *)
ForStacks == {<<Frame("converted_call", "hit")>>, <<Frame("other", "none")>>}

ForEntryStates ==
    {<<x, y>> : x \in {Undefined, Val("i64", 0), Val("f64", 1), Val("str", 0)},
                y \in {Undefined, Val("i64", 0), Val("f64", 1)}}

InitFor ==
    /\ state \in ForEntryStates
    /\ pc = "for_entry"
    /\ Common0
    /\ IfIdle
    /\ iteration_target \in Targets
    /\ body_fn \in Bodies
    /\ strict \in BOOLEAN /\ ignore \in BOOLEAN
    /\ extra_test \in BOOLEAN
    /\ fallback = FALSE /\ loop = NoLoop /\ i = 0
    /\ init_iter_args = <<>> /\ iter_args = <<>> /\ exc = NoExc
    /\ results = <<>> /\ warned = 0 /\ nativePos = 0
    /\ graphSeen = <<>> /\ nativeSeen = <<>> /\ attempts = 0
    /\ stack \in ForStacks
    /\ tb_frame = FrameInfo
    /\ ag_source_map = NoMap /\ info = NoInfo
    /\ CallIdle

(* for_stmt:240-241 without the assertion of line 221.                     *)
ForStmt_Entry_unguarded ==
    /\ pc = "for_entry"
    /\ fallback' = FALSE
    /\ init_state' = state
    /\ pc' = "classify"
    /\ nGet' = nGet + 1
    /\ UNCHANGED <<state, raised, nSet, entry, ifVars, forArgs, loop, i,
                   init_iter_args, iter_args, exc, results, warned, nativePos,
                   graphSeen, nativeSeen, attempts>>
    /\ UNCHANGED <<fallbacks, infoVars, callVars>>

(* for_stmt:221, 240-241                                                   *)
ForStmt_Entry ==
    /\ pc = "for_entry"
    /\ IF extra_test
       THEN /\ Propagate(Exc("AssertionError", "", ""))
            /\ UNCHANGED <<fallback, init_state>>
       ELSE /\ fallback' = FALSE
            /\ init_state' = state
            /\ pc' = "classify"
            /\ UNCHANGED raised
    /\ UNCHANGED <<state, nSet, entry, ifVars, forArgs, loop, i,
                   init_iter_args, iter_args, exc, results, warned, nativePos,
                   graphSeen, nativeSeen, attempts>>
    /\ nGet' = IF extra_test THEN nGet ELSE nGet + 1
    /\ UNCHANGED <<fallbacks, infoVars, callVars>>

(* for_stmt:243-262: the loop bounds, the materialized elements and the    *)
(* fallback flag; len() of an unsized iterable raises TypeError.           *)
Classify_always_array(t) ==
    IF t.kind = "range"
    THEN [exc |-> NoExc, fallback |-> FALSE,
          loop |-> [start |-> get_raw_range(t)[1], stop |-> get_raw_range(t)[2],
                    step |-> get_raw_range(t)[3], enum_start |-> NoneInt,
                    iteration_array |-> NoneArr]]
    ELSE [exc |-> NoExc, fallback |-> FALSE,
          loop |-> [start |-> 0, stop |-> Len(t.seq), step |-> 1,
                    enum_start |-> IF t.kind = "enum" THEN SomeInt(t.start_idx)
                                   ELSE NoneInt,
                    iteration_array |-> SomeArr([n \in 1..Len(t.seq) |-> t.seq[n].v])]]

Classify(t) ==
    IF t.kind = "range"
    THEN [exc |-> NoExc, fallback |-> FALSE,
          loop |-> [start |-> get_raw_range(t)[1], stop |-> get_raw_range(t)[2],
                    step |-> get_raw_range(t)[3], enum_start |-> NoneInt,
                    iteration_array |-> NoneArr]]
    ELSE IF ~t.sized
    THEN [exc |-> Exc("TypeError", "len", ""), fallback |-> FALSE, loop |-> NoLoop]
    ELSE [exc |-> NoExc, fallback |-> ~asarray(t.seq).ok,
          loop |-> [start |-> 0, stop |-> Len(t.seq), step |-> 1,
                    enum_start |-> IF t.kind = "enum" THEN SomeInt(t.start_idx)
                                   ELSE NoneInt,
                    iteration_array |-> IF asarray(t.seq).ok
                                        THEN SomeArr(asarray(t.seq).arr)
                                        ELSE NoneArr]]

(* for_stmt:243-273: classification, then the strict-conversion check,     *)
(* whose error message needs the source location of the loop.              *)
ForStmt_Classify ==
    /\ pc = "classify"
    /\ LET c == Classify(iteration_target) IN
         IF c.exc # NoExc
         THEN Propagate(c.exc) /\ UNCHANGED <<fallback, loop, info>>
         ELSE /\ fallback' = (fallback \/ c.fallback)
              /\ loop' = c.loop
              /\ IF strict /\ fallback'
                 THEN LET r == get_source_code_info(tb_frame, stack) IN
                      /\ info' = r.info
                      /\ IF r.exc # NoExc
                         THEN Propagate(r.exc)
                         ELSE Propagate(Exc("AutoGraphError", "strict", ""))
                 ELSE /\ pc' = IF fallback' THEN "fallback" ELSE "attempt"
                      /\ UNCHANGED <<raised, info>>
    /\ UNCHANGED <<state, nSet, entry, init_state, ifVars, forArgs, i,
                   init_iter_args, iter_args, exc, results, warned, nativePos,
                   graphSeen, nativeSeen, attempts>>
    /\ UNCHANGED <<fallbacks, nGet, stack, tb_frame, ag_source_map, callVars>>

(* for_stmt:276-279 and _call_catalyst_for:171-172, 195: restore the       *)
(* pre-loop state, check the loop inputs, call the for_loop callable.      *)
ForStmt_Attempt ==
    /\ pc = "attempt"
    /\ state' = init_state
    /\ nSet' = nSet + 1
    /\ init_iter_args' = init_state
    /\ LET e == assert_for_loop_inputs(init_state, iterate_names) IN
         IF e # NoExc
         THEN /\ exc' = e
              /\ pc' = "except"
              /\ UNCHANGED <<i, iter_args, attempts>>
         ELSE /\ i' = loop.start
              /\ iter_args' = init_state
              /\ attempts' = attempts + 1
              /\ pc' = "loop"
              /\ UNCHANGED exc
    /\ UNCHANGED <<raised, entry, init_state, ifVars, forArgs, fallback, loop,
                   results, warned, nativePos, graphSeen, nativeSeen>>
    /\ nGet' = nGet + 1
    /\ UNCHANGED <<fallbacks, infoVars, callVars>>

(* functional_for:183-191: the element the body is called with.            *)
GraphElem_no_offset(idx) ==
    IF ~loop.enum_start.some /\ ~loop.iteration_array.some
    THEN <<Num(idx)>>
    ELSE IF ~loop.enum_start.some
    THEN <<Num(loop.iteration_array.val[idx + 1])>>
    ELSE <<Num(idx), Num(loop.iteration_array.val[idx + 1])>>

GraphElem(idx) ==
    IF ~loop.enum_start.some /\ ~loop.iteration_array.some
    THEN <<Num(idx)>>
    ELSE IF ~loop.enum_start.some
    THEN <<Num(loop.iteration_array.val[idx + 1])>>
    ELSE <<Num(idx + loop.enum_start.val),
           Num(loop.iteration_array.val[idx + 1])>>

(* functional_for:175-193: set_state(iter_args), body_fn(elem),            *)
(* return get_state().                                                     *)
functional_for(idx, args) == RunBody(body_fn, GraphElem(idx), args, TRUE)

(* catalyst.for_loop(start, stop, step): is idx an index of the loop?      *)
InLoop(idx) ==
    \/ loop.step > 0 /\ idx < loop.stop
    \/ loop.step < 0 /\ idx > loop.stop

(* catalyst.for_loop runs functional_for for the next index, with the      *)
(* values the previous iteration returned.                                 *)
ForLoop_Iterate ==
    /\ pc = "loop"
    /\ InLoop(i)
    /\ LET r == functional_for(i, iter_args) IN
         /\ nSet' = nSet + 1
         /\ graphSeen' = Append(graphSeen, GraphElem(i))
         /\ state' = r.st
         /\ IF r.exc # NoExc
            THEN /\ exc' = r.exc
                 /\ pc' = "except"
                 /\ UNCHANGED <<i, iter_args>>
            ELSE /\ iter_args' = r.st
                 /\ i' = i + loop.step
                 /\ UNCHANGED <<pc, exc>>
    /\ UNCHANGED <<raised, entry, init_state, ifVars, forArgs, fallback, loop,
                   init_iter_args, results, warned, nativePos, nativeSeen,
                   attempts>>
    /\ nGet' = IF functional_for(i, iter_args).exc # NoExc THEN nGet ELSE nGet + 1
    /\ UNCHANGED <<fallbacks, infoVars, callVars>>

(* _call_catalyst_for:195-197: the loop is over; check and return the      *)
(* final values.                                                           *)
CallCatalystFor_Return ==
    /\ pc = "loop"
    /\ ~InLoop(i)
    /\ LET e == assert_for_loop_results(init_iter_args, iter_args, iterate_names) IN
         IF e # NoExc
         THEN /\ exc' = e
              /\ pc' = "except"
              /\ UNCHANGED results
         ELSE /\ results' = iter_args
              /\ pc' = "finish"
              /\ UNCHANGED exc
    /\ UNCHANGED <<state, raised, nSet, entry, init_state, ifVars, forArgs,
                   fallback, loop, i, init_iter_args, iter_args, warned,
                   nativePos, graphSeen, nativeSeen, attempts>>
    /\ UNCHANGED <<fallbacks, nGet, infoVars, callVars>>

(* for_stmt:282-311 with the strict test at 283 dropped.                   *)
ForStmt_Except_never_strict ==
    /\ pc = "except"
    /\ IF ~IsException(exc)
       THEN Propagate(exc) /\ UNCHANGED <<fallback, warned, info>>
       ELSE LET r == get_source_code_info(tb_frame, stack) IN
            /\ fallback' = TRUE
            /\ info' = r.info
            /\ IF r.exc # NoExc
               THEN Propagate(r.exc) /\ UNCHANGED warned
               ELSE /\ warned' = IF ignore THEN warned ELSE warned + 1
                    /\ pc' = "fallback"
                    /\ UNCHANGED raised
    /\ UNCHANGED <<state, nSet, entry, init_state, ifVars, forArgs, loop, i,
                   init_iter_args, iter_args, exc, results, nativePos,
                   graphSeen, nativeSeen, attempts>>
    /\ UNCHANGED <<fallbacks, nGet, stack, tb_frame, ag_source_map, callVars>>

(* for_stmt:282-311: `except Exception` does not catch a BaseException;    *)
(* strict mode re-raises; otherwise set the flag, recover the source       *)
(* location of the loop (which may raise) and warn.                        *)
ForStmt_Except ==
    /\ pc = "except"
    /\ IF ~IsException(exc) \/ strict
       THEN Propagate(exc) /\ UNCHANGED <<fallback, warned, info>>
       ELSE LET r == get_source_code_info(tb_frame, stack) IN
            /\ fallback' = TRUE
            /\ info' = r.info
            /\ IF r.exc # NoExc
               THEN Propagate(r.exc) /\ UNCHANGED warned
               ELSE /\ warned' = IF ignore THEN warned ELSE warned + 1
                    /\ pc' = "fallback"
                    /\ UNCHANGED raised
    /\ UNCHANGED <<state, nSet, entry, init_state, ifVars, forArgs, loop, i,
                   init_iter_args, iter_args, exc, results, nativePos,
                   graphSeen, nativeSeen, attempts>>
    /\ UNCHANGED <<fallbacks, nGet, stack, tb_frame, ag_source_map, callVars>>

(* for_stmt:314-316 without the set_state(init_state) of line 315.         *)
ForStmt_Fallback_no_restore ==
    /\ pc = "fallback"
    /\ nativePos' = 0
    /\ pc' = "native"
    /\ fallbacks' = fallbacks + 1
    /\ UNCHANGED <<state, nSet, raised, entry, init_state, ifVars, forArgs,
                   fallback, loop, i, init_iter_args, iter_args, exc, results,
                   warned, graphSeen, nativeSeen, attempts>>
    /\ UNCHANGED <<nGet, infoVars, callVars>>

(* for_stmt:314-315  set_state(init_state)                                 *)
ForStmt_Fallback ==
    /\ pc = "fallback"
    /\ state' = init_state
    /\ nSet' = nSet + 1
    /\ nativePos' = 0
    /\ pc' = "native"
    /\ UNCHANGED <<raised, entry, init_state, ifVars, forArgs, fallback, loop,
                   i, init_iter_args, iter_args, exc, results, warned,
                   graphSeen, nativeSeen, attempts>>
    /\ fallbacks' = fallbacks + 1
    /\ UNCHANGED <<nGet, infoVars, callVars>>

(* _call_python_for:203-204: one native iteration.                         *)
CallPythonFor_Iterate ==
    /\ pc = "native"
    /\ nativePos < Len(NativeElems(iteration_target))
    /\ LET elem == NativeElems(iteration_target)[nativePos + 1]
           r == RunBody(body_fn, elem, state, FALSE) IN
         /\ nativeSeen' = Append(nativeSeen, elem)
         /\ state' = r.st
         /\ IF r.exc # NoExc
            THEN Propagate(r.exc) /\ UNCHANGED nativePos
            ELSE /\ nativePos' = nativePos + 1
                 /\ UNCHANGED <<pc, raised>>
    /\ UNCHANGED <<nSet, entry, init_state, ifVars, forArgs, fallback, loop, i,
                   init_iter_args, iter_args, exc, results, warned, graphSeen,
                   attempts>>
    /\ UNCHANGED <<fallbacks, nGet, infoVars, callVars>>

(* _call_python_for:206  return get_state()                                *)
CallPythonFor_Return ==
    /\ pc = "native"
    /\ nativePos = Len(NativeElems(iteration_target))
    /\ results' = state
    /\ pc' = "finish"
    /\ UNCHANGED <<state, raised, nSet, entry, init_state, ifVars, forArgs,
                   fallback, loop, i, init_iter_args, iter_args, exc, warned,
                   nativePos, graphSeen, nativeSeen, attempts>>
    /\ nGet' = nGet + 1
    /\ UNCHANGED <<fallbacks, infoVars, callVars>>

(* for_stmt:320-322  set_state(results)                                    *)
ForStmt_Restore ==
    /\ pc = "finish"
    /\ state' = results
    /\ nSet' = nSet + 1
    /\ pc' = "done"
    /\ UNCHANGED <<raised, entry, init_state, ifVars, forArgs, forVars>>
    /\ UNCHANGED <<fallbacks, nGet, infoVars, callVars>>

NextFor ==
    \/ ForStmt_Entry
    \/ ForStmt_Classify
    \/ ForStmt_Attempt
    \/ ForLoop_Iterate
    \/ CallCatalystFor_Return
    \/ ForStmt_Except
    \/ ForStmt_Fallback
    \/ CallPythonFor_Iterate
    \/ CallPythonFor_Return
    \/ ForStmt_Restore

SpecFor == InitFor /\ [][NextFor]_vars

----------------------------------------------------------------------------
(* A native Python loop  for elem in target: body_fn(elem)  from state s.  *)
RECURSIVE NativeFor(_, _, _)
NativeFor(elems, n, s) ==
    IF n > Len(elems) THEN Ok(s)
    ELSE LET r == RunBody(body_fn, elems[n], s, FALSE) IN
         IF r.exc # NoExc THEN r ELSE NativeFor(elems, n + 1, r.st)

(* Python's built-in range, enumerate(seq, k) and plain iteration.         *)
PyRange(args) ==
    LET a == IF Len(args) = 1 THEN 0 ELSE args[1]
        b == IF Len(args) = 1 THEN args[1] ELSE args[2]
        c == IF Len(args) = 3 THEN args[3] ELSE 1
    IN  [n \in 1..RangeLen(a, b, c) |-> <<Num(a + (n - 1) * c)>>]

PyEnumerate(sq, k) == [n \in 1..Len(sq) |-> <<Num(k + n - 1), sq[n]>>]

PyElems(t) ==
    CASE t.kind = "range" -> PyRange(t.args)
      [] t.kind = "enum"  -> PyEnumerate(t.seq, t.start_idx)
      [] OTHER            -> [n \in 1..Len(t.seq) |-> <<t.seq[n]>>]

NativeLoop == NativeFor(PyElems(iteration_target), 1, entry)

ForTerminated == iteration_target.kind # "none" /\ pc \in {"done", "raised"}

IsPrefix(p, q) == Len(p) <= Len(q) /\ \A n \in 1..Len(p) : p[n] = q[n]

(* The graph-native attempt is made: no loop guard, len() works and the    *)
(* iteration target was materialized (or is a range).                      *)
Classified ==
    /\ iteration_target.kind # "none" /\ ~extra_test
    /\ Classify(iteration_target).exc = NoExc
    /\ ~Classify(iteration_target).fallback

(* Materialization of the target was tried and failed.                     *)
MaterializationFailed ==
    /\ iteration_target.kind \in {"enum", "iter"} /\ ~extra_test
    /\ iteration_target.sized
    /\ ~asarray(iteration_target.seq).ok

(* catalyst.for_loop ran every index and returned.                         *)
LoopCompleted == attempts = 1 /\ ~InLoop(i) /\ pc # "loop"

ExpectedWarnings == IF ignore THEN 0 ELSE 1

----------------------------------------------------------------------------
(* C2: for a range target whose graph-native attempt raises nothing (no    *)
(* tracing error, carried types stable), for_stmt returns without falling  *)
(* back and the state it restores is the final state of the native loop    *)
(* over Python's range with the same arguments, from the pre-loop state.   *)
C2_RangeEquivalence ==
    (ForTerminated /\ iteration_target.kind = "range" /\ ~extra_test
        /\ exc = NoExc)
        => /\ pc = "done" /\ raised = NoExc
           /\ ~fallback /\ warned = 0 /\ nativeSeen = <<>>
           /\ NativeLoop.exc = NoExc
           /\ state = NativeLoop.st
           /\ graphSeen = PyRange(iteration_target.args)

(* C2: a finished graph-native loop over range(2, -1, -1), which sums the  *)
(* indices 2, 1, 0 into x.                                                 *)
C2_Witness ==
    /\ pc = "done" /\ ~fallback
    /\ iteration_target = CRange(<<2, -1, -1>>)
    /\ body_fn = "acc"
    /\ entry = <<Val("i64", 0), Val("i64", 0)>>
    /\ state = <<Val("i64", 3), Val("i64", 0)>>

(* C2: the loops over empty ranges also finish on the graph-native path.   *)
C2_WitnessEmpty ==
    /\ pc = "done" /\ ~fallback
    /\ iteration_target = CRange(<<2, 1, 1>>)
    /\ graphSeen = <<>> /\ state = entry

----------------------------------------------------------------------------
(* C4: without strict mode, when the graph-native attempt raises an        *)
(* exception derived from Exception and the native loop itself raises      *)
(* nothing, for_stmt falls back and completes without raising, having      *)
(* emitted one warning, or none when warnings are suppressed.              *)
C4_ExceptionCompletes ==
    (ForTerminated /\ ~strict /\ IsException(exc) /\ NativeLoop.exc = NoExc)
        => /\ pc = "done" /\ raised = NoExc
           /\ fallback /\ warned = ExpectedWarnings

----------------------------------------------------------------------------
(* C5: without strict mode, for a generic target that cannot be            *)
(* materialized, for_stmt never attempts the graph-native loop, warns      *)
(* nothing and behaves as the native loop from the pre-loop state: it      *)
(* raises only what the native loop raises and restores its final state.   *)
C5_GenericFallsBack ==
    (ForTerminated /\ ~strict /\ ~extra_test
        /\ iteration_target.kind = "iter"
        /\ ~asarray(iteration_target.seq).ok)
        => /\ attempts = 0 /\ graphSeen = <<>> /\ warned = 0
           /\ raised = NativeLoop.exc
           /\ NativeLoop.exc = NoExc => (pc = "done" /\ state = NativeLoop.st)

----------------------------------------------------------------------------
(* C6: in strict mode, when materialization of an enumeration or generic   *)
(* target fails, for_stmt raises the strict-conversion error; the body is  *)
(* never invoked, set_state is never called and the caller's state stays   *)
(* the pre-loop state.                                                     *)
C6_StrictMaterializationError ==
    (strict /\ MaterializationFailed)
        => /\ graphSeen = <<>> /\ nativeSeen = <<>>
           /\ nSet = 0 /\ state = entry /\ attempts = 0 /\ warned = 0
           /\ pc \in {"for_entry", "classify", "raised"}
           /\ pc = "raised" => raised = Exc("AutoGraphError", "strict", "")

----------------------------------------------------------------------------
(* The carried variables whose exit (shape, dtype) differs from the entry. *)
Unstable ==
    {n \in 1..Len(iter_args) : init_iter_args[n].ty # iter_args[n].ty}

ExitsTyped == \A n \in 1..Len(iter_args) : Abstractifiable(iter_args[n])

C7_WitnessFallback ==
    /\ pc = "done" /\ ~strict /\ fallback
    /\ body_fn = "cast" /\ iteration_target = CRange(<<0, 2>>)
    /\ entry = <<Val("i64", 0), Val("f64", 1)>>
    /\ exc = Exc("AutoGraphError", "unstable", "x")
    /\ Len(nativeSeen) = 2

----------------------------------------------------------------------------
C8_WitnessFallback ==
    /\ pc = "done" /\ ~strict /\ fallback
    /\ iteration_target = CRange(<<0, 2>>) /\ body_fn = "last"
    /\ entry = <<Val("i64", 0), Undefined>>
    /\ exc = Exc("AutoGraphError", "undefined", "y")
    /\ state = <<Val("i64", 0), Val("i64", 1)>>

----------------------------------------------------------------------------
(* C9: for an enumeration target the body receives, on the graph-native    *)
(* path and on the fallback path, the pairs (k + i, s[i]) in increasing i: *)
(* what it has received so far is a prefix of enumerate(s, k), and the     *)
(* whole of it when the path that delivered it ran to its end.             *)
C9_EnumeratePairs ==
    iteration_target.kind = "enum"
        => LET ref == PyEnumerate(iteration_target.seq, iteration_target.start_idx) IN
           /\ IsPrefix(graphSeen, ref)
           /\ IsPrefix(nativeSeen, ref)
           /\ (pc = "done" /\ ~fallback) => graphSeen = ref
           /\ (pc = "done" /\ fallback) => nativeSeen = ref
           /\ LoopCompleted => graphSeen = ref

(* C9: enumerate([2, 1], 1) whose body failed on the first graph-native    *)
(* pair and then received both pairs natively.                             *)
C9_Witness ==
    /\ pc = "done" /\ fallback
    /\ iteration_target = CEnumerate(<<Num(2), Num(1)>>, 1, TRUE)
    /\ body_fn = "index"
    /\ graphSeen = <<<<Num(1), Num(2)>>>>
    /\ nativeSeen = <<<<Num(1), Num(2)>>, <<Num(2), Num(1)>>>>

(* C9: the same enumeration delivered wholly by the graph-native loop.     *)
C9_WitnessGraph ==
    /\ pc = "done" /\ ~fallback
    /\ iteration_target = CEnumerate(<<Num(2), Num(1)>>, 1, TRUE)
    /\ graphSeen = <<<<Num(1), Num(2)>>, <<Num(2), Num(1)>>>>

----------------------------------------------------------------------------
(* C10: in strict mode for_stmt never reaches the fallback: the body is    *)
(* never iterated natively and no warning is emitted; a classification     *)
(* failure or an exception of the graph-native attempt ends the call with  *)
(* an error raised to the caller.                                          *)
C10_StrictNeverFallsBack ==
    (iteration_target.kind # "none" /\ strict)
        => /\ pc \notin {"fallback", "native"}
           /\ nativePos = 0 /\ nativeSeen = <<>> /\ warned = 0
           /\ (pc = "done") => (~fallback /\ exc = NoExc)
           /\ (ForTerminated /\ (fallback \/ exc # NoExc))
                => (pc = "raised" /\ raised # NoExc)
           /\ (pc = "raised" /\ exc # NoExc) => raised = exc

(* C10: strict mode, the body failed on the dynamic index and the tracing  *)
(* error reached the caller.                                               *)
C10_Witness ==
    /\ pc = "raised" /\ strict
    /\ body_fn = "index" /\ Len(graphSeen) = 1
    /\ raised = Exc("TracerIntegerConversionError", "", "")

----------------------------------------------------------------------------
(* get_source_code_info met on its own, on every stack of at most          *)
(* MaxFrames frames and for both classes of frame object.                  *)
MaxFrames == 2

StackFrames ==
    {Frame("other", "none")}
        \cup {Frame(k, a) : k \in FrameKinds \ {"other"}, a \in Accesses}

RECURSIVE StacksUpTo(_)
StacksUpTo(n) ==
    IF n = 0 THEN {<<>>}
    ELSE StacksUpTo(n - 1)
            \cup {Append(st, f) : st \in {t \in StacksUpTo(n - 1) : Len(t) = n - 1},
                                  f \in StackFrames}

InitInfo ==
    /\ state = <<Undefined, Undefined>>
    /\ pc = "info_entry"
    /\ Common0
    /\ IfIdle /\ ForIdle /\ CallIdle
    /\ stack \in StacksUpTo(MaxFrames)
    /\ tb_frame \in {FrameSummary, FrameInfo}
    /\ ag_source_map = NoMap /\ info = NoInfo

(* get_source_code_info:334-355: the stack walk.                           *)
Info_Walk ==
    /\ pc = "info_entry"
    /\ ag_source_map' = FindSourceMap(stack, 1)
    /\ pc' = "info_report"
    /\ UNCHANGED <<state, raised, nSet, entry, init_state, ifVars, forArgs,
                   forVars, fallbacks, nGet, stack, tb_frame, info, callVars>>

(* get_source_code_info:357-371: the lookup and the description.           *)
Info_Report ==
    /\ pc = "info_report"
    /\ LET r == SourceInfo(tb_frame, ag_source_map) IN
       /\ info' = r.info
       /\ IF r.exc # NoExc
          THEN Propagate(r.exc)
          ELSE pc' = "info_done" /\ UNCHANGED raised
    /\ UNCHANGED <<state, nSet, entry, init_state, ifVars, forArgs, forVars,
                   fallbacks, nGet, stack, tb_frame, ag_source_map, callVars>>

NextInfo ==
    \/ Info_Walk
    \/ Info_Report

SpecInfo == InitInfo /\ [][NextInfo]_vars

InfoTerminated == tb_frame.cls # "none" /\ pc \in {"info_done", "raised"}

(* The frames of the stack that pass a test of the walk, and whether the   *)
(* first of them hands out a source map.                                   *)
Exposing == {n \in 1..Len(stack) : stack[n].kind # "other"}
MapFound == Exposing # {} /\ stack[Min(Exposing)].access \in {"hit", "miss"}
MapHolds == MapFound /\ stack[Min(Exposing)].access = "hit"

RawInfo ==
    [filename |-> tb_frame.filename, lineno |-> tb_frame.lineno,
     function_name |-> tb_frame.name, source_code |-> tb_frame.line]

NonEmpty(d) == d.filename # "" /\ d.lineno > 0 /\ d.function_name # ""

----------------------------------------------------------------------------
(* C12: get_source_code_info never raises, whatever the stack (no frame    *)
(* exposing a source map, a failing access, a map without the location),   *)
(* and what it returns holds a filename, a line number and a function      *)
(* name, those of the frame itself when no source map is found.            *)
C12_NeverRaises ==
    InfoTerminated
        => /\ pc = "info_done" /\ raised = NoExc
           /\ NonEmpty(info)
           /\ ~MapFound => info = RawInfo

----------------------------------------------------------------------------
(* C20: get_source_code_info reports the mapped location, from the map of  *)
(* the first frame of the walk that exposes one, exactly when that map     *)
(* holds the location of the frame; otherwise it reports the frame's own   *)
(* filename, line number, name and line.                                   *)
C20_MappedExactlyWhenFound ==
    InfoTerminated
        => /\ pc = "info_done"
           /\ MapHolds
                => /\ info.filename = OriginInfo(Min(Exposing)).filename
                   /\ info.lineno = OriginInfo(Min(Exposing)).lineno
                   /\ info.function_name = OriginInfo(Min(Exposing)).function_name
                   /\ info.source_code.txt
                        = OriginInfo(Min(Exposing)).source_code_line.txt
           /\ ~MapHolds => info = RawInfo

----------------------------------------------------------------------------
(* C13: called with a loop guard, for_stmt raises at its first statement:  *)
(* get_state and set_state are never called, the body is never invoked on  *)
(* either path, nothing is classified, attempted or warned, and the error  *)
(* the caller receives is the one of the assertion.                        *)
C13_GuardFailsFirst ==
    (iteration_target.kind # "none" /\ extra_test)
        => /\ pc \in {"for_entry", "raised"}
           /\ nGet = 0 /\ nSet = 0 /\ init_state = <<>>
           /\ graphSeen = <<>> /\ nativeSeen = <<>>
           /\ attempts = 0 /\ fallbacks = 0 /\ ~fallback /\ warned = 0
           /\ state = entry
           /\ pc = "raised" => raised = Exc("AssertionError", "", "")

(* C13: the call with a loop guard over range(0, 2) has ended with the     *)
(* assertion error.                                                        *)
C13_Witness ==
    /\ pc = "raised" /\ extra_test
    /\ iteration_target = CRange(<<0, 2>>)
    /\ raised = Exc("AssertionError", "", "")
    /\ nGet = 0 /\ nSet = 0

----------------------------------------------------------------------------
(* C15: no tuple returned to catalyst.cond by a branch procedure, and no   *)
(* tuple returned to catalyst.for_loop by the loop-body procedure, holds   *)
(* an Undefined marker.                                                    *)
C15_NoUndefinedToBackend ==
    /\ \A b \in BOOLEAN : UndefinedAt(branch_results[b]) = {}
    /\ UndefinedAt(iter_args) = {}

----------------------------------------------------------------------------
(* One step of for_stmt keeps a set fallback flag set, starts the          *)
(* graph-native attempt only from the classification and only with the     *)
(* flag unset and no fallback begun, and starts nothing of the graph       *)
(* -native path once the native fallback was started.                      *)
AttemptOnceStep ==
    /\ fallback => fallback'
    /\ (pc' = "attempt" /\ pc # "attempt")
            => (pc = "classify" /\ ~fallback' /\ fallbacks = 0 /\ attempts = 0)
    /\ (pc' = "classify" /\ pc # "classify") => pc = "for_entry"
    /\ pc' = "for_entry" => pc = "for_entry"
    /\ fallbacks > 0 => (attempts' = attempts /\ graphSeen' = graphSeen)

(* C16: in one for_stmt invocation catalyst.for_loop is called at most     *)
(* once and the native fallback is started at most once; the fallback flag *)
(* is never cleared; a target that failed to be materialized is never      *)
(* attempted graph-natively; no graph-native attempt follows the start of  *)
(* the native fallback.                                                    *)
C16_AttemptOnceFallbackOnce ==
    /\ [](attempts <= 1 /\ fallbacks <= 1)
    /\ []((iteration_target.kind # "none" /\ MaterializationFailed)
            => (attempts = 0 /\ graphSeen = <<>> /\ pc # "attempt"))
    /\ [](nativeSeen # <<>> => (fallback /\ fallbacks = 1))
    /\ [][AttemptOnceStep]_vars

(* C16: a call that made its one graph-native attempt, fell back once and  *)
(* finished natively.                                                      *)
C16_Witness ==
    /\ pc = "done" /\ fallback
    /\ attempts = 1 /\ fallbacks = 1
    /\ graphSeen # <<>> /\ Len(nativeSeen) = 2

----------------------------------------------------------------------------
(* The graph-native attempt was started and failed.                        *)
AttemptFailed == iteration_target.kind # "none" /\ exc # NoExc

(* C17: after a failed graph-native attempt the native fallback starts     *)
(* from the pre-loop state; each native iteration receives the next        *)
(* element of the original target and the state the native loop has after  *)
(* the elements before it; the state restored at the end is the final      *)
(* state of the native loop over the original target from the pre-loop     *)
(* state, and an exception of the native loop is the one raised.           *)
C17_FallbackFromPreLoopState ==
    (AttemptFailed /\ fallbacks > 0)
        => /\ init_state = entry
           /\ IsPrefix(nativeSeen, PyElems(iteration_target))
           /\ pc = "native" => /\ Len(nativeSeen) = nativePos
                               /\ Ok(state) = NativeFor(SubSeq(PyElems(iteration_target), 1, nativePos), 1, entry)
           /\ pc = "finish" => (nativeSeen = PyElems(iteration_target) /\ results = NativeLoop.st)
           /\ pc = "done" => /\ nativeSeen = PyElems(iteration_target)
                             /\ NativeLoop.exc = NoExc
                             /\ state = NativeLoop.st
           /\ pc = "raised" => (raised = NativeLoop.exc /\ raised # NoExc)

(* C17: x entered range(0, 2) as the integer 0 and the attempt left it the *)
(* float 1 before failing the type check; the native loop started from 0   *)
(* again and the call ended with x = 1.0.                                  *)
C17_Witness ==
    /\ pc = "done" /\ fallback /\ fallbacks = 1
    /\ body_fn = "promote" /\ iteration_target = CRange(<<0, 2>>)
    /\ entry = <<Val("i64", 0), Val("i64", 0)>>
    /\ iter_args = <<Val("f64", 1), Val("i64", 0)>>
    /\ exc = Exc("AutoGraphError", "unstable", "x")
    /\ nativeSeen = PyElems(iteration_target)
    /\ state = <<Val("f64", 1), Val("i64", 0)>>

----------------------------------------------------------------------------
(* C18: whenever a branch body of if_stmt has started, the tracked state   *)
(* it started from is the state before the conditional, whichever          *)
(* procedure catalyst.cond ran first and whatever that one did.            *)
C18_BranchesStartFromEntry ==
    \A b \in BOOLEAN :
        bodyEntry[b] # <<>> => (bodyEntry[b] = entry /\ init_state = entry)

(* C18: the false procedure ran first and incremented x; the true body     *)
(* then started from the entry state all the same.                         *)
C18_Witness ==
    /\ ran = <<FALSE, TRUE>>
    /\ false_fn = "incx"
    /\ branch_results[FALSE] # entry
    /\ bodyEntry[TRUE] = entry

----------------------------------------------------------------------------
(* converted_call                                                          *)
(*                                                                         *)
(* The callees: the built-ins range and enumerate, a QJIT object wrapping  *)
(* a function or a QNode, a QNode, a plain function.                       *)
CallFns == {"range", "enumerate", "qjit(f)", "qjit(qnode(f))", "qnode(f)", "f"}

isQJIT(fn) == fn \in {"qjit(f)", "qjit(qnode(f))"}
isQNode(fn) == fn = "qnode(f)"
user_function(fn) == IF fn = "qjit(f)" THEN "f" ELSE "qnode(f)"
func(fn) == "f"

MaxCalls == 3
MaxDepth == 2

Calls ==
    {Call("range", a, <<>>, NoneInt) :
        a \in {<<MaxBound>>, <<1, MaxBound>>, <<MaxBound, 0, -1>>}}
    \cup {Call("enumerate", a, <<Num(2), Num(1)>>, NoneInt) : a \in {<<>>, <<1>>}}
    \cup {Call("enumerate", <<>>, <<Num(2), Num(1)>>, SomeInt(1))}
    \cup {Call(fn, <<1>>, <<>>, NoneInt) : fn \in CallFns \ {"range", "enumerate"}}

(* catalyst.autograph.TRANSFORMER and module_allowlist (lines 377-381).    *)
TRANSFORMER == "catalyst.TRANSFORMER"
module_allowlist == "module_allowlist"

(* A value the upstream call conversion returns.                           *)
Value == [NoTarget EXCEPT !.kind = "value"]

InitCall ==
    /\ state = <<Undefined, Undefined>>
    /\ pc = "call_entry"
    /\ Common0
    /\ IfIdle /\ ForIdle /\ InfoIdle
    /\ transformer \in {"tf._TRANSPILER", "user_transpiler"}
    /\ allowlist \in {"tf.CONVERSION_RULES", "user_rules"}
    /\ preCall = <<transformer, allowlist>>
    /\ frames = <<>> /\ ret = NoRet /\ delegated = <<>> /\ calls = <<>>

Top == frames[Len(frames)]

SetTop(f) == [frames EXCEPT ![Len(frames)] = f]

(* Patcher.__enter__: keep the current value of each patched attribute,    *)
(* then install the override.                                              *)
PatcherEnter(cur_t, cur_a) ==
    [backup |-> <<cur_t, cur_a>>, transformer |-> TRANSFORMER,
     allowlist |-> module_allowlist]

(* Patcher.__exit__: put the kept values back.                             *)
PatcherExit(backup) == [transformer |-> backup[1], allowlist |-> backup[2]]

(* The frame of a converted_call that has just entered its `with` block.   *)
NewFrame(c, backup) ==
    [call |-> c, fn |-> c.fn, before |-> <<transformer, allowlist>>,
     backup |-> backup, phase |-> "dispatch", value |-> NoTarget,
     exc |-> NoExc, deleg |-> NoDeleg]

(* A call may begin at top level, or from the body of a callee the         *)
(* upstream conversion is running.                                         *)
CanEnter ==
    /\ Len(calls) < MaxCalls /\ Len(frames) < MaxDepth
    /\ \/ pc = "call_entry" /\ frames = <<>>
       \/ pc = "call" /\ frames # <<>> /\ Top.phase = "delegated"

(* converted_call:388-391 putting back, at exit, the values found when the *)
(* first call began in place of those found when this call began.          *)
ConvertedCall_Enter_fixed_backup ==
    /\ CanEnter
    /\ \E c \in Calls :
         LET e == PatcherEnter(transformer, allowlist) IN
         /\ transformer' = e.transformer
         /\ allowlist' = e.allowlist
         /\ frames' = Append(frames, NewFrame(c, preCall))
         /\ calls' = Append(calls, c)
    /\ pc' = "call"
    /\ UNCHANGED <<state, raised, nSet, entry, init_state, ifVars, forArgs,
                   forVars, fallbacks, nGet, infoVars, ret, delegated, preCall>>

(* converted_call:388-391: the `with Patcher(...)` block is entered.       *)
ConvertedCall_Enter ==
    /\ CanEnter
    /\ \E c \in Calls :
         LET e == PatcherEnter(transformer, allowlist) IN
         /\ transformer' = e.transformer
         /\ allowlist' = e.allowlist
         /\ frames' = Append(frames, NewFrame(c, e.backup))
         /\ calls' = Append(calls, c)
    /\ pc' = "call"
    /\ UNCHANGED <<state, raised, nSet, entry, init_state, ifVars, forArgs,
                   forVars, fallbacks, nGet, infoVars, ret, delegated, preCall>>

(* CEnumerate called with the arguments of the call: start is the second   *)
(* positional argument, the keyword argument, or the default of the        *)
(* signature (line 504).                                                   *)
BindStart(c) ==
    IF Len(c.ints) >= 1 THEN c.ints[1]
    ELSE IF c.kw.some THEN c.kw.val ELSE 0

(* CEnumerate.__init__ keeping the default start whatever was passed.      *)
Descriptor_default_start(c) ==
    IF c.fn = "range" THEN CRange(c.ints)
    ELSE CEnumerate(c.iterable, 0, TRUE)

(* converted_call:395-398: the descriptor returned for range / enumerate.  *)
Descriptor(c) ==
    IF c.fn = "range" THEN CRange(c.ints)
    ELSE CEnumerate(c.iterable, BindStart(c), TRUE)

(* converted_call:406-420: the callee handed to tf_converted_call, after   *)
(* the QJIT object was replaced by its function and the QNode by its       *)
(* quantum function, called inside a new QNode.                            *)
Delegate(c) ==
    LET fn1 == IF isQJIT(c.fn) THEN user_function(c.fn) ELSE c.fn IN
    [some |-> TRUE,
     fn |-> IF isQNode(fn1) THEN func(fn1) ELSE fn1,
     ints |-> c.ints, iterable |-> c.iterable, kw |-> c.kw,
     via_qnode |-> isQNode(fn1)]

(* converted_call:395-420: dispatch on the callee.                         *)
ConvertedCall_Dispatch ==
    /\ pc = "call" /\ frames # <<>> /\ Top.phase = "dispatch"
    /\ IF Top.call.fn \in {"range", "enumerate"}
       THEN /\ frames' = SetTop([Top EXCEPT !.phase = "exit",
                                            !.value = Descriptor(Top.call)])
            /\ UNCHANGED delegated
       ELSE /\ frames' = SetTop([Top EXCEPT !.phase = "delegated",
                                            !.fn = Delegate(Top.call).fn,
                                            !.deleg = Delegate(Top.call)])
            /\ delegated' = Append(delegated, Delegate(Top.call))
    /\ UNCHANGED <<state, pc, raised, nSet, entry, init_state, ifVars, forArgs,
                   forVars, fallbacks, nGet, infoVars, transformer, allowlist,
                   ret, calls, preCall>>

(* converted_call:414, 420: tf_converted_call returns a value.             *)
Delegated_Return ==
    /\ pc = "call" /\ frames # <<>> /\ Top.phase = "delegated"
    /\ frames' = SetTop([Top EXCEPT !.phase = "exit", !.value = Value])
    /\ UNCHANGED <<state, pc, raised, nSet, entry, init_state, ifVars, forArgs,
                   forVars, fallbacks, nGet, infoVars, transformer, allowlist,
                   ret, delegated, calls, preCall>>

(* converted_call:414, 420: tf_converted_call raises.                      *)
Delegated_Raise ==
    /\ pc = "call" /\ frames # <<>> /\ Top.phase = "delegated"
    /\ frames' = SetTop([Top EXCEPT !.phase = "exit",
                                    !.exc = Exc("ValueError", "", "")])
    /\ UNCHANGED <<state, pc, raised, nSet, entry, init_state, ifVars, forArgs,
                   forVars, fallbacks, nGet, infoVars, transformer, allowlist,
                   ret, delegated, calls, preCall>>

(* What the call that ends hands to its caller.                            *)
Outcome(f) ==
    [kind |-> IF f.exc # NoExc THEN "raised" ELSE "returned",
     call |-> f.call, before |-> f.before, value |-> f.value, exc |-> f.exc,
     deleg |-> f.deleg, depth |-> Len(frames)]

(* The caller's side of the end of a call: the outermost call ends the     *)
(* run; an exception of a nested call is raised in the body of the callee  *)
(* that made it, which lets it propagate or handles it.                    *)
Leave(f) ==
    /\ ret' = Outcome(f)
    /\ IF Len(frames) = 1
       THEN /\ frames' = <<>>
            /\ IF f.exc # NoExc
               THEN Propagate(f.exc)
               ELSE pc' = "call_done" /\ UNCHANGED raised
       ELSE /\ UNCHANGED <<pc, raised>>
            /\ LET rest == SubSeq(frames, 1, Len(frames) - 1)
                   outer == rest[Len(rest)] IN
               \/ frames' = rest
               \/ /\ f.exc # NoExc
                  /\ frames' = [rest EXCEPT ![Len(rest)] =
                                   [outer EXCEPT !.phase = "exit", !.exc = f.exc]]

(* converted_call:388-420 leaving the `with` block the way a plain         *)
(* assignment after the body would: nothing is put back when the body      *)
(* raises.                                                                 *)
ConvertedCall_Exit_unless_raised ==
    /\ pc = "call" /\ frames # <<>> /\ Top.phase = "exit"
    /\ LET x == PatcherExit(Top.backup) IN
       /\ transformer' = IF Top.exc # NoExc THEN transformer ELSE x.transformer
       /\ allowlist' = IF Top.exc # NoExc THEN allowlist ELSE x.allowlist
    /\ Leave(Top)
    /\ UNCHANGED <<state, nSet, entry, init_state, ifVars, forArgs, forVars,
                   fallbacks, nGet, infoVars, delegated, calls, preCall>>

(* converted_call:388-420: the `with` block is left, by a return or by an  *)
(* exception, and Patcher.__exit__ runs.                                   *)
ConvertedCall_Exit ==
    /\ pc = "call" /\ frames # <<>> /\ Top.phase = "exit"
    /\ LET x == PatcherExit(Top.backup) IN
       /\ transformer' = x.transformer
       /\ allowlist' = x.allowlist
    /\ Leave(Top)
    /\ UNCHANGED <<state, nSet, entry, init_state, ifVars, forArgs, forVars,
                   fallbacks, nGet, infoVars, delegated, calls, preCall>>

NextCall ==
    \/ ConvertedCall_Enter
    \/ ConvertedCall_Dispatch
    \/ Delegated_Return
    \/ Delegated_Raise
    \/ ConvertedCall_Exit

SpecCall == InitCall /\ [][NextCall]_vars

----------------------------------------------------------------------------
(* C11: when a converted_call has ended, by returning a descriptor, by     *)
(* returning what the delegated call returned or by the exception the      *)
(* delegated call raised, the process-wide transformer and allowlist are   *)
(* the values they had when that call began; after the outermost call they *)
(* are the values from before it.                                          *)
C11_RestoredAfterCall ==
    /\ ret.kind # "none" => <<transformer, allowlist>> = ret.before
    /\ pc \in {"call_done", "raised"} => <<transformer, allowlist>> = preCall

(* C11: a call of a QJIT object wrapping a QNode, met with a user's own    *)
(* transformer installed, has ended with the exception of the delegated    *)
(* call and the user's transformer is back.                                *)
C11_Witness ==
    /\ pc = "raised" /\ frames = <<>>
    /\ ret.kind = "raised" /\ ret.call.fn = "qjit(qnode(f))"
    /\ preCall = <<"user_transpiler", "user_rules">>
    /\ transformer = "user_transpiler" /\ allowlist = "user_rules"

----------------------------------------------------------------------------
(* The raw triple and the start offset the arguments of a call ask for.    *)
ExpectedRaw(a) ==
    CASE Len(a) = 1 -> <<0, a[1], 1>>
      [] Len(a) = 2 -> <<a[1], a[2], 1>>
      [] OTHER      -> <<a[1], a[2], a[3]>>

ExpectedStart(c) ==
    CASE c.ints # <<>> -> c.ints[1]
      [] c.kw.some     -> c.kw.val
      [] OTHER         -> 0

(* What a dispatched call c has produced: the value v it returns (when it  *)
(* returns one) and the upstream call d it made.                           *)
DispatchedAsClaimed(c, v, d, returns) ==
    /\ c.fn = "range"
          => /\ ~d.some
             /\ returns /\ v.kind = "range"
             /\ get_raw_range(v) = ExpectedRaw(c.ints)
    /\ c.fn = "enumerate"
          => /\ ~d.some
             /\ returns /\ v.kind = "enum"
             /\ v.seq = c.iterable
             /\ v.start_idx = ExpectedStart(c)
    /\ c.fn = "f"
          => /\ d.some /\ ~d.via_qnode
             /\ d.fn = c.fn /\ d.ints = c.ints /\ d.iterable = c.iterable
             /\ d.kw = c.kw
             /\ returns => v = Value

(* C14: a call of range returns a range descriptor whose raw triple is     *)
(* (0, n, 1), (a, b, 1) or (a, b, c) and a call of enumerate an            *)
(* enumeration descriptor with the iterable and the start offset (0 by     *)
(* default), neither calling the upstream conversion; a call of a plain    *)
(* callable is handed to the upstream conversion with the same callee and  *)
(* arguments.                                                              *)
C14_Dispatch ==
    /\ \A n \in 1..Len(frames) :
          frames[n].phase # "dispatch"
             => DispatchedAsClaimed(frames[n].call, frames[n].value,
                                    frames[n].deleg, frames[n].exc = NoExc
                                        /\ frames[n].phase = "exit")
    /\ ret.kind # "none"
          => DispatchedAsClaimed(ret.call, ret.value, ret.deleg,
                                 ret.kind = "returned")
    /\ \A n \in 1..Len(delegated) : delegated[n].fn \notin {"range", "enumerate"}
    /\ Len(delegated) <= Cardinality({n \in 1..Len(calls) :
                            calls[n].fn \notin {"range", "enumerate"}})

(* C14: enumerate(s, start=1) has returned its descriptor and nothing was  *)
(* handed upstream.                                                        *)
C14_Witness ==
    /\ pc = "call_done" /\ delegated = <<>>
    /\ ret.call = Call("enumerate", <<>>, <<Num(2), Num(1)>>, SomeInt(1))
    /\ ret.value = CEnumerate(<<Num(2), Num(1)>>, 1, TRUE)

(* C14: range(MaxBound, 0, -1) called from the body of a plain callee.     *)
C14_WitnessRange ==
    /\ Len(frames) = 1 /\ Top.call.fn = "f" /\ Top.phase = "delegated"
    /\ ret.call = Call("range", <<MaxBound, 0, -1>>, <<>>, NoneInt)
    /\ get_raw_range(ret.value) = <<MaxBound, 0, -1>>
    /\ Len(delegated) = 1 /\ delegated[1].fn = "f"

----------------------------------------------------------------------------
(* C19: as long as a converted_call is active the overrides are installed, *)
(* also after a call made from within it has returned or raised; the       *)
(* values from before the outermost call are back when, and only when, no  *)
(* call is active.                                                         *)
C19_OverridesWhileActive ==
    /\ frames # <<>>
          => (transformer = TRANSFORMER /\ allowlist = module_allowlist)
    /\ frames = <<>> => <<transformer, allowlist>> = preCall
    /\ preCall[1] # TRANSFORMER /\ preCall[2] # module_allowlist

(* C19: a call made from the body of a callee has raised, the callee        *)
(* handled the exception and goes on under the overrides.                  *)
C19_Witness ==
    /\ Len(frames) = 1 /\ Top.phase = "delegated"
    /\ ret.kind = "raised" /\ ret.depth = 2
    /\ transformer = TRANSFORMER /\ allowlist = module_allowlist
====
